---- MODULE Spec2Model ----
(***************************************************************************)
(* A model of wordfence-cli's path identifier (wordpress/identifier.py),   *)
(* of its vectorscan matcher (scanning/matching/matching.py,               *)
(* scanning/matching/vectorscan.py and util/vectorscan/bindings.py) and of *)
(* the command line's context (cli/context.py).                            *)
(*                                                                         *)
(* A path is the tuple pathlib calls its parts: the anchor "/" followed by *)
(* the components.  The trie KnownPath is a function from the node's       *)
(* position (the parts leading to it, <<>> for the root) to the node's     *)
(* identity; the nodes that exist are the function's domain.               *)
(***************************************************************************)
EXTENDS Integers, Sequences, FiniteSets, TLC

VARIABLES
    known_paths,   \* FileIdentifier.known_paths: the trie
    calls,         \* number of identify() calls made so far
    arg,           \* the path given to the last identify() call
    ret,           \* what the last identify() call returned (or raised)
    attempts,      \* normalized path -> discoveries invoked by queries for it
    failed,        \* normalized paths whose discovery raised WordpressException
    last_identify, \* the last identify() call: discoveries and re-entries made
    match_all,     \* Matcher.match_all
    lazy,          \* Matcher.lazy
    prepared,      \* Matcher.prepared
    database,      \* VectorscanMatcher.database: 0 is None, n the n-th acquired
    scanner,       \* VectorscanMatcher.scanner: 0 is None, else a session
    sessions,      \* session -> [owner, callback, scratch, fired, ...]: the scanners
    contexts,      \* context -> [owner, matches, matched]: the matcher contexts
    ready,         \* thread -> it has called _prepare_thread()
    created,       \* matcher contexts created so far
    cur,           \* thread -> the context it holds (0: none)
    entered,       \* thread -> it is inside `with context:`
    prepare_calls, \* prepare() calls made so far
    acquisitions,  \* runs of _prepare() so far
    last_scan,     \* the last process_chunk call: who, on what, with what effect
    database_source, \* VectorscanMatcher.database_source
    acquired,      \* runs of _prepare() so far, by the way they acquired
    raised,        \* the exception the last call raised to its caller
    backend,       \* the backend call the last call made, and its return code
    pending,       \* thread -> the exception ending its `with` block
    last_exit,     \* the last __exit__: who, on what session, leaving how
    preparers,     \* thread -> where its prepare() call stands
    guarded,       \* the callers hold an external guard around prepare()
    last_match,    \* the last _record_match call made on a context directly
    callers,       \* thread -> where its identify() call stands
    serialized,    \* the callers hold an external lock around identify()
    config_license,  \* CliContext.config.license: "None" or the key
    license,       \* CliContext._license: 0 is None, 1 the License built
    noc1_client,   \* CliContext._noc1_client: 0 is None, n the n-th built
    terms_update_hooks, \* CliContext._terms_update_hooks
    client_hooks,  \* the hooks registered on the client _noc1_client holds
    constructed,   \* noc1.Client instances constructed so far
    gets,          \* get_noc1_client() calls made so far
    last_get       \* the last get_noc1_client(): what it returned or raised

trieVars == <<known_paths, calls, arg, ret, attempts, failed, last_identify>>

matcherVars == <<match_all, lazy, prepared, database, scanner, sessions,
                 contexts, created, ready, cur, entered, prepare_calls,
                 acquisitions, last_scan, database_source, acquired, raised,
                 backend, pending, last_exit, last_match>>

callerVars == <<callers, serialized>>

preparerVars == <<preparers, guarded>>

cliVars == <<config_license, license, noc1_client, terms_update_hooks,
             client_hooks, constructed, gets, last_get>>

vars == <<trieVars, matcherVars, callerVars, preparerVars, cliVars>>

\* ------------------------------------------------------------------ bounds

\* identify() calls in one behaviour
MaxCalls == 3

\* nested identify() frames the interpreter allows before RecursionError
MaxDepth == 3

\* components appended to a base directory to form a queried path
MaxRel == 1

\* worker threads sharing the one Matcher
NumThreads == 2

\* prepare() calls in one behaviour
MaxPrepareCalls == 2

\* matcher contexts created in one behaviour
MaxContexts == 2

\* signatures of the signature set
NumSignatures == 2

\* ------------------------------------------------------- the file system

Anchor == "/"

\* The one installation of the modelled file system, as the discovery
\* service (WordpressSite) reports it.
CorePath == <<Anchor, "wp">>

\* The directory that holds the extensions (wp-content): no extension itself.
ContentPath == <<Anchor, "wp", "c">>

PluginPath == <<Anchor, "wp", "c", "pl">>

ThemePath == <<Anchor, "wp", "c", "th">>

\* A directory outside every installation.
OutsidePath == <<Anchor, "x">>

\* The installation's root, spelled through a relative segment.
CoreAlias == <<Anchor, "x", "..", "wp">>

SitePlugins == <<PluginPath>>

SiteThemes == <<ThemePath>>

RelNames == {"f", ".."}

RECURSIVE SeqsUpTo(_, _)
SeqsUpTo(S, n) ==
    IF n = 0 THEN {<<>>}
    ELSE LET shorter == SeqsUpTo(S, n - 1)
         IN  shorter \cup {Append(s, c) : s \in shorter, c \in S}

Bases == {CorePath, ContentPath, PluginPath, ThemePath, OutsidePath, CoreAlias}

\* The paths identify() is called with: not normalized (".." segments).
QueryPaths == {b \o r : b \in Bases, r \in SeqsUpTo(RelNames, MaxRel)}

\* ------------------------------------------------------------ identities

None == [kind |-> "None"]

\* FileIdentity(FileType.UNKNOWN)
Unclassified == [kind |-> "FileIdentity", type |-> "unknown"]

GroupIdentity(type, path, extension, final) ==
    [kind |-> "GroupIdentity", type |-> type, path |-> path,
     extension |-> extension, final |-> final]

KnownFileIdentity(type, local_path, extension) ==
    [kind |-> "KnownFileIdentity", type |-> type, local_path |-> local_path,
     extension |-> extension]

\* The ValueError of Path.relative_to, as the outcome of a call.
Raised == [kind |-> "ValueError"]

\* the interpreter ran out of frames
RecursionError == [kind |-> "RecursionError"]

is_final(identity) ==
    CASE identity.kind = "GroupIdentity" -> identity.final
      [] identity.kind = "KnownFileIdentity" -> TRUE
      [] OTHER -> FALSE

\* ------------------------------------------------------------------ paths

RECURSIVE Resolve(_, _)
Resolve(parts, acc) ==
    IF parts = <<>> THEN acc
    ELSE LET c == Head(parts)
         IN  Resolve(Tail(parts),
                     IF c = ".."
                     THEN (IF Len(acc) > 1 THEN SubSeq(acc, 1, Len(acc) - 1)
                           ELSE acc)
                     ELSE Append(acc, c))

\* KnownPath.prepare_path: path.expanduser().resolve()
prepare_path(path) == Resolve(Tail(path), <<Head(path)>>)

IsPrefix(p, q) == Len(p) <= Len(q) /\ SubSeq(q, 1, Len(p)) = p

\* Path.relative_to: lexical, on the parts as given
relative_to(path, base) == SubSeq(path, Len(base) + 1, Len(path))

\* Path.name
name(path) == IF Len(path) > 1 THEN <<path[Len(path)]>> ELSE <<"">>

\* ------------------------------------------------------------------- trie

EmptyTrie == [n \in {<<>>} |-> None]

RECURSIVE Walk(_, _, _)
Walk(kp, node, rest) ==
    IF rest = <<>> THEN node
    ELSE IF kp[node] # None /\ is_final(kp[node]) THEN node
    ELSE LET child == Append(node, Head(rest))
         IN  IF child \in DOMAIN kp THEN Walk(kp, child, Tail(rest))
             ELSE node

\* KnownPath.find_identity
find_identity(kp, path) == kp[Walk(kp, <<>>, prepare_path(path))]

\* KnownPath.set_identity
set_identity(kp, path, identity) ==
    LET p == prepare_path(path)
        on_path == {SubSeq(p, 1, i) : i \in 0..Len(p)}
    IN  [n \in (DOMAIN kp) \cup on_path |->
            IF n = p THEN identity
            ELSE IF n \in DOMAIN kp THEN kp[n] ELSE None]

\* -------------------------------------------------------------- discovery

\* WordpressSite(str(path), is_child_path=True): the installation the path
\* lies in, or WordpressException
DiscoverySucceeds(path) == IsPrefix(CorePath, prepare_path(path))

RECURSIVE ExtensionIdentities(_, _)
ExtensionIdentities(type, exts) ==
    IF exts = <<>> THEN <<>>
    ELSE <<[path |-> Head(exts),
            identity |-> GroupIdentity(type, Head(exts), Head(exts), TRUE)]>>
         \o ExtensionIdentities(type, Tail(exts))

\* FileIdentifier._identify_new_path: the set_identity calls it makes, in
\* the order it makes them
seeded_identities(path) ==
    IF DiscoverySucceeds(path)
    THEN <<[path |-> CorePath,
            identity |-> GroupIdentity("core", CorePath, <<>>, FALSE)]>>
         \o ExtensionIdentities("plugin", SitePlugins)
         \o ExtensionIdentities("theme", SiteThemes)
    ELSE <<[path |-> path, identity |-> Unclassified]>>

RECURSIVE SetAll(_, _)
SetAll(kp, todo) ==
    IF todo = <<>> THEN kp
    ELSE SetAll(set_identity(kp, Head(todo).path, Head(todo).identity),
                Tail(todo))

\* _identify_new_path with nothing stored when discovery fails
identify_new_path_forgets(kp, path) ==
    IF DiscoverySucceeds(path) THEN SetAll(kp, seeded_identities(path)) ELSE kp

\* FileIdentifier._identify_new_path
identify_new_path(kp, path) == SetAll(kp, seeded_identities(path))

\* identify() returning what the lookup found, the conversion stored only
resolve_identity_returns_found(kp, path, identity) ==
    IF identity.kind = "GroupIdentity"
    THEN IF path # identity.path /\ ~IsPrefix(identity.path, path)
         THEN [kp |-> kp, ret |-> Raised]
         ELSE LET local_path == IF path # identity.path
                                THEN relative_to(path, identity.path)
                                ELSE name(path)
                  known == KnownFileIdentity(identity.type, local_path,
                                             identity.extension)
              IN  [kp |-> set_identity(kp, path, known), ret |-> identity]
    ELSE [kp |-> kp, ret |-> identity]

\* FileIdentifier.identify from the trie lookup on: [kp, ret]
resolve_identity(kp, path, identity) ==
    IF identity.kind = "GroupIdentity"
    THEN IF path # identity.path /\ ~IsPrefix(identity.path, path)
         THEN [kp |-> kp, ret |-> Raised]
         ELSE LET local_path == IF path # identity.path
                                THEN relative_to(path, identity.path)
                                ELSE name(path)
                  known == KnownFileIdentity(identity.type, local_path,
                                             identity.extension)
              IN  [kp |-> set_identity(kp, path, known), ret |-> known]
    ELSE [kp |-> kp, ret |-> identity]

\* identify() calling itself with its own identify_new
reentrant_identify_new_same(identify_new) == identify_new

\* FileIdentifier.identify: the identify_new it gives the call it makes of
\* itself after discovery
reentrant_identify_new(identify_new) == FALSE

\* FileIdentifier.identify in the frame `depth`:
\* [kp, ret, discovered, discoveries, reentries]
RECURSIVE identify_at(_, _, _, _)
identify_at(kp, path, identify_new, depth) ==
    IF depth > MaxDepth
    THEN [kp |-> kp, ret |-> RecursionError, discovered |-> FALSE,
          discoveries |-> 0, reentries |-> 0]
    ELSE LET identity == find_identity(kp, path)
         IN  IF identity = None
             THEN IF identify_new
                  THEN LET seeded == identify_new_path(kp, path)
                           r == identify_at(seeded, path,
                                            reentrant_identify_new(identify_new),
                                            depth + 1)
                       IN  [kp |-> r.kp, ret |-> r.ret, discovered |-> TRUE,
                            discoveries |-> r.discoveries + 1,
                            reentries |-> r.reentries + 1]
                  ELSE [kp |-> kp, ret |-> Unclassified, discovered |-> FALSE,
                        discoveries |-> 0, reentries |-> 0]
             ELSE LET r == resolve_identity(kp, path, identity)
                  IN  [kp |-> r.kp, ret |-> r.ret, discovered |-> FALSE,
                       discoveries |-> 0, reentries |-> 0]

\* identify() discovering whatever its caller asked for
identify_always_new(kp, path, identify_new) == identify_at(kp, path, TRUE, 1)

\* FileIdentifier.identify, as its caller calls it
identify(kp, path, identify_new) == identify_at(kp, path, identify_new, 1)

\* the record of a call that was never made
NoIdentify == [identify_new |-> TRUE, discoveries |-> 0, reentries |-> 0]

\* ------------------------------------------------------ sequential callers

Count(f, p) == IF p \in DOMAIN f THEN f[p] ELSE 0

Bump(f, p) == [q \in (DOMAIN f) \cup {p} |-> IF q = p THEN Count(f, p) + 1 ELSE f[q]]

TrieInit ==
    /\ known_paths = EmptyTrie
    /\ calls = 0
    /\ arg = <<Anchor>>
    /\ ret = None
    /\ attempts = << >>
    /\ failed = {}
    /\ last_identify = NoIdentify

\* one identify(path, identify_new) call, start to end
IdentifyCall(path, identify_new) ==
    /\ LET r == identify(known_paths, path, identify_new)
           p == prepare_path(path)
       IN  /\ known_paths' = r.kp
           /\ ret' = r.ret
           /\ attempts' = IF r.discovered THEN Bump(attempts, p) ELSE attempts
           /\ last_identify' = [identify_new |-> identify_new,
                                discoveries |-> r.discoveries,
                                reentries |-> r.reentries]
           /\ failed' = IF r.discovered /\ ~DiscoverySucceeds(path)
                        THEN failed \cup {p} ELSE failed
    /\ arg' = path
    /\ calls' = calls + 1
    /\ UNCHANGED <<matcherVars, callerVars, preparerVars, cliVars>>

\* identify(path), identify_new left at its default
Identify(path) ==
    /\ calls < MaxCalls
    /\ IdentifyCall(path, TRUE)

\* identify(path, False)
IdentifyKnown(path) ==
    /\ calls < MaxCalls
    /\ IdentifyCall(path, FALSE)

\* ---------------------------------------------------------------- backend

\* bindings.VectorscanErrorType: the names of the backend's return codes
VectorscanErrorType ==
    (0 :> "SUCCESS" @@ -1 :> "INVALID" @@ -2 :> "NOMEM"
     @@ -3 :> "SCAN_TERMINATED" @@ -4 :> "COMPILER_ERROR"
     @@ -5 :> "DB_VERSION_ERROR" @@ -6 :> "DB_MODE_ERROR"
     @@ -8 :> "BAD_ALIGN" @@ -9 :> "BAD_ALLOC" @@ -10 :> "SCRATCH_IN_USE"
     @@ -11 :> "ARCH_ERROR" @@ -12 :> "INSUFFICIENT_SPACE"
     @@ -13 :> "UNKNOWN_ERROR")

\* no exception
NoError == [class |-> "None", error |-> "SUCCESS", args |-> << >>]

\* bindings.VectorscanError(error); BaseException.__new__ keeps the
\* constructor's arguments in args
VectorscanError(error) ==
    [class |-> "VectorscanError", error |-> error, args |-> <<error>>]

\* bindings.VectorscanCompilerError(message)
VectorscanCompilerError(message) ==
    [class |-> "VectorscanCompilerError", error |-> "COMPILER_ERROR",
     args |-> <<message>>]

\* the stream scanner's early-stop signal
VectorscanScanTerminated ==
    [class |-> "VectorscanScanTerminated", error |-> "SCAN_TERMINATED",
     args |-> << >>]

\* bindings._assert_success: the exception it raises, NoError for none
assert_success(error) ==
    LET type == IF error \in DOMAIN VectorscanErrorType
                THEN VectorscanErrorType[error]
                ELSE "UNKNOWN_ERROR"
    IN  IF type = "SUCCESS" THEN NoError ELSE VectorscanError(type)

\* bindings._assert_success given a code as the Python int ctypes returns
\* (wrapped FALSE) or as a c_int instance (wrapped TRUE): for an instance it
\* reads `_hs_error.value`, the attribute of the class c_int and no integer,
\* which VectorscanErrorType() rejects with ValueError
assert_success_of(wrapped, error) ==
    IF wrapped THEN VectorscanError("UNKNOWN_ERROR") ELSE assert_success(error)

\* the codes a status check is given: those VectorscanErrorType lists, the
\* one it skips (-7) and one on either side of its range
StatusCodes == (-14)..1

\* _assert_compilation_success without its translation of COMPILER_ERROR
assert_compilation_success_generic(error, message) == assert_success(error)

\* bindings._assert_compilation_success; the backend's messages are ASCII,
\* which decode('utf-8') returns as they are
assert_compilation_success(error, message) ==
    LET e == assert_success(error)
    IN  IF e # NoError /\ e.error = "COMPILER_ERROR"
        THEN VectorscanCompilerError(message)
        ELSE e

\* codes hs_compile_multi returns: success, a malformed pattern, no memory,
\* and a code VectorscanErrorType does not list
CompileCodes == {0, -4, -2, -7}

\* codes deserializing a blob returns: success, a blob of another version
DeserializeCodes == {0, -5}

\* codes hs_alloc_scratch returns
AllocCodes == {0, -2}

\* codes a scan returns when no callback stops it
ScanCodes == {0, -10}

\* the messages hs_compile_multi reports with COMPILER_ERROR
Messages == {"bad pattern 1", "bad pattern 2"}

\* no backend call made
NoCall == [op |-> "none", code |-> 0, message |-> ""]

\* ---------------------------------------------------------------- matcher

Threads == 1..NumThreads

Signatures == 1..NumSignatures

\* a chunk, by the signatures whose pattern it holds
Chunks == SUBSET Signatures

NoScan == [thread |-> 0, context |-> 0, session |-> 0, recorded |-> 0,
           result |-> "none", start |-> FALSE, candidates |-> {},
           reported |-> {}, terminate |-> FALSE, before |-> "None",
           chunk |-> {}]

NoExit == [thread |-> 0, session |-> 0, how |-> "none", error |-> NoError]

NoMatch == [context |-> 0, identifier |-> 0, matched |-> "", prior |-> "absent"]

\* the matched texts a context is given with a match
Texts == {"", "a"}

\* VectorscanMatcher.database_source: None, empty bytes, a serialized database
DatabaseSources == {"None", "", "blob"}

\* Matcher.__init__ and VectorscanMatcher.__init__
MatcherInit ==
    /\ match_all \in BOOLEAN
    /\ lazy \in BOOLEAN
    /\ database_source \in DatabaseSources
    /\ prepared = FALSE
    /\ database = 0
    /\ scanner = 0
    /\ sessions = << >>
    /\ contexts = << >>
    /\ created = 0
    /\ ready = [t \in Threads |-> FALSE]
    /\ cur = [t \in Threads |-> 0]
    /\ entered = [t \in Threads |-> FALSE]
    /\ prepare_calls = 0
    /\ acquisitions = 0
    /\ acquired = [compile |-> 0, deserialize |-> 0]
    /\ raised = NoError
    /\ backend = NoCall
    /\ pending = [t \in Threads |-> NoError]
    /\ last_scan = NoScan
    /\ last_exit = NoExit
    /\ last_match = NoMatch

\* prepare() without its check of the prepared flag
prepare_acquires_always(is_prepared) == TRUE

\* Matcher.prepare: does this call run _prepare()?
prepare_acquires(is_prepared) == ~is_prepared

\* _initialize_database taking the compiler whatever it was given
initialize_database_compiles(source) == FALSE

\* VectorscanMatcher._initialize_database: does it deserialize
\* database_source?  (`if self.database_source:`)
initialize_database_loads(source) == source \notin {"None", ""}

\* the codes the acquisition _initialize_database chooses can return
AcquisitionCodes(source) ==
    IF initialize_database_loads(source) THEN DeserializeCodes
    ELSE CompileCodes

\* VectorscanMatcher._initialize_database: the backend call it makes and the
\* exception that call raises
initialize_database(source, code, message) ==
    IF initialize_database_loads(source)
    THEN [op |-> "deserialize", raised |-> assert_success(code)]
    ELSE [op |-> "compile",
          raised |-> assert_compilation_success(code, message)]

\* prepare() marking the matcher prepared whatever _prepare() did
prepare_completes_always(error) == TRUE

\* Matcher.prepare: `self.prepared = True` is reached when _prepare() has
\* returned, and is not when it has raised `error`
prepare_completes(error) == error = NoError

\* Matcher.prepare with VectorscanMatcher._prepare; the acquisition
\* (vectorscan_compile, vectorscan_deserialize) returns a database or raises
Prepare(code, message) ==
    /\ prepare_calls < MaxPrepareCalls
    /\ prepare_calls' = prepare_calls + 1
    /\ IF prepare_acquires(prepared)
       THEN LET r == initialize_database(database_source, code, message)
            IN  /\ code \in AcquisitionCodes(database_source)
                /\ code = -4 \/ message = ""
                /\ code = -4 => message \in Messages
                /\ acquisitions' = acquisitions + 1
                /\ acquired' = [acquired EXCEPT ![r.op] = @ + 1]
                /\ backend' = [op |-> r.op, code |-> code, message |-> message]
                /\ raised' = r.raised
                /\ database' = IF r.raised = NoError
                               THEN acquisitions + 1 ELSE database
                /\ prepared' = IF prepare_completes(r.raised)
                               THEN TRUE ELSE prepared
       ELSE /\ code = 0 /\ message = ""
            /\ raised' = NoError
            /\ backend' = NoCall
            /\ UNCHANGED <<acquisitions, acquired, database, prepared>>
    /\ UNCHANGED <<match_all, lazy, database_source, scanner, sessions,
                   contexts, created, ready, cur, entered, pending,
                   last_scan, last_exit, last_match>>
    /\ UNCHANGED <<trieVars, callerVars, preparerVars, cliVars>>

\* one _assert_success(error) call on a code the backend returned
AssertSuccess(wrapped, code) ==
    /\ backend' = [op |-> IF wrapped THEN "status of c_int"
                                      ELSE "status of int",
                   code |-> code, message |-> ""]
    /\ raised' = assert_success_of(wrapped, code)
    /\ UNCHANGED <<match_all, lazy, prepared, database, scanner, sessions,
                   contexts, created, ready, cur, entered, prepare_calls,
                   acquisitions, last_scan, database_source, acquired,
                   pending, last_exit, last_match>>
    /\ UNCHANGED <<trieVars, callerVars, preparerVars, cliVars>>

\* VectorscanMatcher._prepare_thread: the scanner the matcher holds after
\* thread t has made the scanner `new`
prepare_thread_scanner(t, new) == new

\* bindings.VectorscanScratch.__init__: the scratch it holds and the
\* exception it raises, given the code hs_alloc_scratch returns
VectorscanScratch(code) ==
    [scratch |-> IF code = 0 THEN "allocated" ELSE "null",
     raised |-> NoError]

\* VectorscanMatcher._prepare_thread, called once by each worker thread;
\* VectorscanStreamScanner(None) raises and leaves everything as it was
PrepareThread(t, code) ==
    /\ ~ready[t]
    /\ IF database = 0
       THEN /\ code = 0
            /\ raised' = [class |-> "AttributeError", error |-> "SUCCESS",
                          args |-> << >>]
            /\ backend' = NoCall
            /\ UNCHANGED <<scanner, sessions, ready>>
       ELSE LET new == Cardinality(DOMAIN sessions) + 1
                made == VectorscanScratch(code)
            IN  /\ backend' = [op |-> "alloc_scratch", code |-> code,
                               message |-> ""]
                /\ raised' = made.raised
                /\ IF made.raised = NoError
                   THEN /\ sessions' =
                              [s \in (DOMAIN sessions) \cup {new} |->
                                  IF s = new
                                  THEN [owner |-> t, callback |-> 0,
                                        scratch |-> made.scratch,
                                        fired |-> {}, entries |-> 0,
                                        resets |-> 0]
                                  ELSE sessions[s]]
                        /\ scanner' = prepare_thread_scanner(t, new)
                        /\ ready' = [ready EXCEPT ![t] = TRUE]
                   ELSE UNCHANGED <<scanner, sessions, ready>>
    /\ UNCHANGED <<match_all, lazy, database_source, prepared, database,
                   contexts, created, cur, entered, prepare_calls,
                   acquisitions, acquired, pending, last_scan, last_exit, last_match>>
    /\ UNCHANGED <<trieVars, callerVars, preparerVars, cliVars>>

\* VectorscanMatcher.create_context: does it call prepare() first?
create_context_prepares(is_lazy, is_prepared) == FALSE

\* VectorscanMatcher.create_context and VectorscanMatcherContext.__init__;
\* the caller of a matcher that is not lazy has called prepare() before
CreateContext(t) ==
    /\ cur[t] = 0
    /\ lazy \/ prepare_calls > 0
    /\ created < MaxContexts
    /\ created' = created + 1
    /\ contexts' = [c \in (DOMAIN contexts) \cup {created + 1} |->
                       IF c = created + 1
                       THEN [owner |-> t, matches |-> << >>,
                             matched |-> "None"]
                       ELSE contexts[c]]
    /\ cur' = [cur EXCEPT ![t] = created + 1]
    /\ IF create_context_prepares(lazy, prepared)
       THEN /\ acquisitions' = acquisitions + 1
            /\ database' = acquisitions + 1
            /\ prepared' = TRUE
       ELSE UNCHANGED <<acquisitions, database, prepared>>
    /\ raised' = NoError
    /\ backend' = NoCall
    /\ UNCHANGED <<match_all, lazy, database_source, scanner, sessions, ready,
                   entered, prepare_calls, acquired, pending, last_scan,
                   last_exit, last_match>>
    /\ UNCHANGED <<trieVars, callerVars, preparerVars, cliVars>>

\* VectorscanMatcherContext.__enter__, by a thread that has made its scanner:
\* set_callback on the scanner the matcher holds
Enter(t) ==
    /\ ready[t] /\ cur[t] # 0 /\ ~entered[t]
    /\ sessions' = [sessions EXCEPT ![scanner].callback = cur[t],
                                    ![scanner].entries = @ + 1]
    /\ entered' = [entered EXCEPT ![t] = TRUE]
    /\ raised' = NoError
    /\ backend' = NoCall
    /\ UNCHANGED <<match_all, lazy, database_source, prepared, database,
                   scanner, contexts, created, ready, cur, prepare_calls,
                   acquisitions, acquired, pending, last_scan, last_exit, last_match>>
    /\ UNCHANGED <<trieVars, callerVars, preparerVars, cliVars>>

\* VectorscanMatcherContext.process_chunk: the scanner the call scans with
process_chunk_scanner(t) == scanner

\* VectorscanMatcherContext.process_chunk: the stream state the scan goes on
\* from, given the signatures that fired in the stream so far (SINGLEMATCH:
\* each fires once in a stream) and the call's `start`
process_chunk_stream(fired, start) == fired

\* process_chunk leaving the matched flag as the call before left it
process_chunk_matched_kept(before) == IF before = "None" THEN "False" ELSE before

\* VectorscanMatcherContext.process_chunk: the matched flag it starts with
process_chunk_matched(before) == "False"

\* _match_callback going on whatever match_all says
match_callback_never_terminates(is_match_all) == FALSE

\* VectorscanMatcherContext._match_callback: does it ask the backend to stop?
match_callback_terminates(is_match_all) == ~is_match_all

\* _record_match keeping the record an identifier already has
record_match_keeps_first(matches, identifier, matched) ==
    [i \in (DOMAIN matches) \cup {identifier} |->
        IF i \in DOMAIN matches THEN matches[i] ELSE matched]

\* MatcherContext._record_match: self.matches[identifier] = matched
record_match(matches, identifier, matched) ==
    [i \in (DOMAIN matches) \cup {identifier} |->
        IF i = identifier THEN matched ELSE matches[i]]

\* MatcherContext._record_match, called on the context a thread holds
RecordMatch(t, identifier, matched) ==
    /\ cur[t] # 0
    /\ LET matches == contexts[cur[t]].matches
       IN  /\ contexts' = [contexts EXCEPT ![cur[t]].matches =
                              record_match(matches, identifier, matched)]
           /\ last_match' = [context |-> cur[t], identifier |-> identifier,
                             matched |-> matched,
                             prior |-> IF identifier \in DOMAIN matches
                                       THEN matches[identifier]
                                       ELSE "absent"]
    /\ raised' = NoError
    /\ backend' = NoCall
    /\ UNCHANGED <<match_all, lazy, database_source, prepared, database,
                   scanner, sessions, created, ready, cur, entered,
                   prepare_calls, acquisitions, acquired, pending, last_scan,
                   last_exit>>
    /\ UNCHANGED <<trieVars, callerVars, preparerVars, cliVars>>

\* _match_callback's _record_match for every signature of `hits`
RECURSIVE match_callbacks(_, _)
match_callbacks(matches, hits) ==
    IF hits = {} THEN matches
    ELSE LET identifier == CHOOSE i \in hits : TRUE
         IN  match_callbacks(record_match(matches, identifier, ""),
                             hits \ {identifier})

\* VectorscanMatcherContext._match_callback for every signature of `hits`:
\* the records and the matched flag; a context that was given up is out of
\* every caller's sight
record_matches(ctxs, c, hits) ==
    IF hits = {} \/ c \notin DOMAIN ctxs THEN ctxs
    ELSE [ctxs EXCEPT ![c].matches = match_callbacks(@, hits),
                      ![c].matched = "True"]

\* VectorscanMatcherContext.process_chunk: what it returns, given what the
\* scan raised and the matched flag after the scan
process_chunk_result(error, matched) ==
    IF error = VectorscanScanTerminated THEN "True"
    ELSE IF error # NoError THEN "raised"
    ELSE matched

\* VectorscanMatcherContext.process_chunk.  The backend returns `code`
\* before any match when it fails (INVALID when the scratch was never
\* allocated); else it reports the signatures of `reported` to the bound
\* callback: those of the chunk that have not fired in the stream, until the
\* callback asks it to stop.
ProcessChunk(t, chunk, reported, start, code) ==
    /\ entered[t]
    /\ pending[t] = NoError
    /\ LET c == cur[t]
           s == process_chunk_scanner(t)
           cb == sessions[s].callback
           stream == process_chunk_stream(sessions[s].fired, start)
           candidates == IF code = 0 THEN chunk \ stream ELSE {}
           stops == cb # 0 /\ match_callback_terminates(match_all)
           terminate == stops /\ candidates # {}
           error == IF code # 0 THEN assert_success(code)
                    ELSE IF terminate THEN VectorscanScanTerminated
                    ELSE NoError
           cleared == [contexts EXCEPT
                          ![c].matched = process_chunk_matched(@)]
           after == record_matches(cleared, cb, reported)
           result == process_chunk_result(error, after[c].matched)
           thrown == IF result = "raised" THEN error ELSE NoError
       IN  /\ IF sessions[s].scratch = "null" THEN code = -1
              ELSE code \in ScanCodes
           /\ reported \subseteq candidates
           /\ IF terminate THEN Cardinality(reported) = 1
              ELSE reported = candidates
           /\ contexts' = after
           /\ sessions' = [sessions EXCEPT ![s].fired = stream \cup reported]
           /\ raised' = thrown
           /\ pending' = [pending EXCEPT ![t] = thrown]
           /\ backend' = [op |-> "scan",
                          code |-> IF terminate THEN -3 ELSE code,
                          message |-> ""]
           /\ last_scan' = [thread |-> t, context |-> c, session |-> s,
                            recorded |-> IF reported = {} THEN 0 ELSE cb,
                            result |-> result, start |-> start,
                            candidates |-> candidates, reported |-> reported,
                            terminate |-> terminate,
                            before |-> contexts[c].matched,
                            chunk |-> chunk]
    /\ UNCHANGED <<match_all, lazy, database_source, prepared, database,
                   scanner, created, ready, cur, entered, prepare_calls,
                   acquisitions, acquired, last_exit, last_match>>
    /\ UNCHANGED <<trieVars, callerVars, preparerVars, cliVars>>

\* the stream scanner's reset(): the callback and the stream state go
reset(session) ==
    [session EXCEPT !.callback = 0, !.fired = {}, !.resets = @ + 1]

\* __exit__ resetting nothing
exit_resets_nothing(session) == session

\* VectorscanMatcherContext.__exit__: what it does to the scanner the
\* matcher holds
exit_resets(session) == reset(session)

\* VectorscanMatcherContext.__exit__ returns None: the exception that made
\* the `with` block end is raised again
exit_suppresses(error) == FALSE

\* leaving `with context:`, normally or by the exception process_chunk
\* raised: VectorscanMatcherContext.__exit__; the caller then gives the
\* context up
Exit(t) ==
    /\ entered[t]
    /\ entered' = [entered EXCEPT ![t] = FALSE]
    /\ cur' = [cur EXCEPT ![t] = 0]
    /\ contexts' = [c \in (DOMAIN contexts) \ {cur[t]} |-> contexts[c]]
    /\ sessions' = [sessions EXCEPT ![scanner] = exit_resets(@)]
    /\ LET error == IF exit_suppresses(pending[t]) THEN NoError
                    ELSE pending[t]
           how == IF pending[t] # NoError THEN "exception"
                  ELSE IF /\ last_scan.thread = t
                          /\ last_scan.context = cur[t]
                          /\ last_scan.terminate
                       THEN "terminated"
                  ELSE "normal"
       IN  /\ raised' = error
           /\ last_exit' = [thread |-> t, session |-> scanner, how |-> how,
                            error |-> error]
    /\ pending' = [pending EXCEPT ![t] = NoError]
    /\ backend' = NoCall
    /\ UNCHANGED <<match_all, lazy, database_source, prepared, database,
                   scanner, created, ready, prepare_calls, acquisitions,
                   acquired, last_scan, last_match>>
    /\ UNCHANGED <<trieVars, callerVars, preparerVars, cliVars>>

\* ----------------------------------------------------- concurrent prepare

NotPreparing == [pc |-> "idle", raised |-> NoError]

\* threads about to call prepare(), with or without an external guard
PreparersInit ==
    /\ preparers = [t \in Threads |-> NotPreparing]
    /\ guarded \in BOOLEAN

PreparersIdle ==
    /\ preparers = [t \in Threads |-> NotPreparing]
    /\ guarded = FALSE

\* the external guard: no prepare() call starts while another is under way
MayPrepare(t) ==
    guarded => \A u \in Threads \ {t} : preparers[u].pc \in {"idle", "done"}

\* Matcher.prepare, to its check of the flag: `if self.prepared: return`
PrepareCall(t) ==
    /\ preparers[t].pc = "idle"
    /\ MayPrepare(t)
    /\ preparers' = [preparers EXCEPT ![t].pc =
                        IF prepare_acquires(prepared) THEN "checked"
                        ELSE "done"]
    /\ prepare_calls' = prepare_calls + 1
    /\ raised' = NoError
    /\ backend' = NoCall
    /\ UNCHANGED <<match_all, lazy, database_source, prepared, database,
                   scanner, sessions, contexts, created, ready, cur, entered,
                   acquisitions, acquired, pending, last_scan, last_exit, last_match>>
    /\ UNCHANGED <<trieVars, callerVars, guarded, cliVars>>

\* Matcher.prepare: self._prepare()
PrepareAcquire(t, code, message) ==
    /\ preparers[t].pc = "checked"
    /\ LET r == initialize_database(database_source, code, message)
       IN  /\ code \in AcquisitionCodes(database_source)
           /\ code = -4 \/ message = ""
           /\ code = -4 => message \in Messages
           /\ acquisitions' = acquisitions + 1
           /\ acquired' = [acquired EXCEPT ![r.op] = @ + 1]
           /\ backend' = [op |-> r.op, code |-> code, message |-> message]
           /\ raised' = r.raised
           /\ IF r.raised = NoError
              THEN /\ database' = acquisitions + 1
                   /\ preparers' = [preparers EXCEPT ![t].pc = "acquired"]
              ELSE /\ UNCHANGED database
                   /\ preparers' = [preparers EXCEPT ![t].pc = "done",
                                                     ![t].raised = r.raised]
    /\ UNCHANGED <<match_all, lazy, database_source, prepared, scanner,
                   sessions, contexts, created, ready, cur, entered,
                   prepare_calls, pending, last_scan, last_exit, last_match>>
    /\ UNCHANGED <<trieVars, callerVars, guarded, cliVars>>

\* Matcher.prepare: self.prepared = True
PrepareFinish(t) ==
    /\ preparers[t].pc = "acquired"
    /\ prepared' = TRUE
    /\ preparers' = [preparers EXCEPT ![t].pc = "done"]
    /\ raised' = NoError
    /\ backend' = NoCall
    /\ UNCHANGED <<match_all, lazy, database_source, database, scanner,
                   sessions, contexts, created, ready, cur, entered,
                   prepare_calls, acquisitions, acquired, pending, last_scan,
                   last_exit, last_match>>
    /\ UNCHANGED <<trieVars, callerVars, guarded, cliVars>>

\* ------------------------------------------------------ concurrent callers

\* The threads of a worker pool call identify() on the one FileIdentifier.
\* A call advances by the steps the interpreter can interleave: the trie
\* lookup, then in set_identity, for each component, the membership test,
\* the insertion of a new node and the descent, and last the assignment of
\* the identity.

NotCalling ==
    [pc |-> "idle", path |-> <<Anchor>>, new |-> TRUE, todo |-> <<>>,
     next |-> "done", node |-> <<>>, rest |-> <<>>, attached |-> TRUE,
     ret |-> None]

\* the paths the threads ask for: a core file, an extension's directory, a
\* file of the extension, a file outside every installation
CallerPaths == {CorePath \o <<"f">>, PluginPath, PluginPath \o <<"f">>,
                OutsidePath \o <<"f">>}

CallersInit ==
    /\ callers = [t \in Threads |-> NotCalling]
    /\ serialized \in BOOLEAN

CallersIdle ==
    /\ callers = [t \in Threads |-> NotCalling]
    /\ serialized = FALSE

\* the external lock: no other thread is inside identify()
MayRun(t) ==
    serialized => \A u \in Threads \ {t} : callers[u].pc \in {"idle", "done"}

\* set_identity as it starts on the first of `todo`, or `after` when none is left
StartSet(c, todo, after) ==
    IF todo = <<>>
    THEN [c EXCEPT !.pc = after, !.todo = <<>>]
    ELSE [c EXCEPT !.pc = "set", !.todo = todo, !.next = after,
                   !.node = <<>>, !.rest = prepare_path(Head(todo).path),
                   !.attached = TRUE]

\* without the lock two threads of the pool call identify(), which is all
\* a race needs
MayCall(t) ==
    serialized \/ \E u \in Threads : \A v \in Threads \ {t, u} : callers[v].pc = "idle"

\* FileIdentifier.identify is called
CallIdentify(t, path) ==
    /\ callers[t].pc = "idle"
    /\ MayRun(t)
    /\ MayCall(t)
    /\ callers' = [callers EXCEPT ![t] =
                      [NotCalling EXCEPT !.pc = "find", !.path = path]]
    /\ UNCHANGED <<trieVars, matcherVars, serialized, preparerVars, cliVars>>

\* FileIdentifier.identify: the lookup and what it leads to
FindStep(t) ==
    /\ callers[t].pc = "find"
    /\ MayRun(t)
    /\ LET c == callers[t]
           identity == find_identity(known_paths, c.path)
       IN  callers' = [callers EXCEPT ![t] =
              IF identity = None
              THEN IF c.new
                   THEN StartSet([c EXCEPT !.new = FALSE],
                                 seeded_identities(c.path), "find")
                   ELSE [c EXCEPT !.pc = "done", !.ret = Unclassified]
              ELSE IF identity.kind = "GroupIdentity"
              THEN IF c.path # identity.path /\ ~IsPrefix(identity.path, c.path)
                   THEN [c EXCEPT !.pc = "done", !.ret = Raised]
                   ELSE LET known == KnownFileIdentity(
                                identity.type,
                                IF c.path # identity.path
                                THEN relative_to(c.path, identity.path)
                                ELSE name(c.path),
                                identity.extension)
                        IN  StartSet([c EXCEPT !.ret = known],
                                     <<[path |-> c.path, identity |-> known]>>,
                                     "done")
              ELSE [c EXCEPT !.pc = "done", !.ret = identity]]
    /\ UNCHANGED <<trieVars, matcherVars, serialized, preparerVars, cliVars>>

\* set_identity without its membership test: a new node every time
child_missing_always(kp, child) == TRUE

\* KnownPath.set_identity: `component not in node.children`
child_missing(kp, child) == child \notin DOMAIN kp

\* KnownPath.set_identity: the membership test, and the descent when the
\* child is there
CheckStep(t) ==
    /\ callers[t].pc = "set"
    /\ callers[t].rest # <<>>
    /\ MayRun(t)
    /\ LET c == callers[t]
           child == Append(c.node, Head(c.rest))
       IN  callers' = [callers EXCEPT ![t] =
              IF c.attached /\ child_missing(known_paths, child)
              THEN [c EXCEPT !.pc = "insert"]
              ELSE [c EXCEPT !.node = child, !.rest = Tail(c.rest)]]
    /\ UNCHANGED <<trieVars, matcherVars, serialized, preparerVars, cliVars>>

\* the trie with a new, empty node put at `child`, whatever was there
put_new_node(kp, child) ==
    [n \in {m \in DOMAIN kp : ~IsPrefix(child, m)} \cup {child} |->
        IF n = child THEN None ELSE kp[n]]

\* KnownPath.set_identity: `node.children[component] = KnownPath()` and the
\* descent into the new node; a thread that stood in the node replaced, or
\* below it, now writes to nodes the trie no longer holds
InsertStep(t) ==
    /\ callers[t].pc = "insert"
    /\ MayRun(t)
    /\ LET c == callers[t]
           child == Append(c.node, Head(c.rest))
       IN  /\ known_paths' = IF c.attached THEN put_new_node(known_paths, child)
                             ELSE known_paths
           /\ callers' = [u \in Threads |->
                 IF u = t
                 THEN [c EXCEPT !.pc = "set", !.node = child,
                                !.rest = Tail(c.rest)]
                 ELSE IF /\ c.attached
                         /\ callers[u].pc \in {"set", "insert"}
                         /\ IsPrefix(child, callers[u].node)
                 THEN [callers[u] EXCEPT !.attached = FALSE]
                 ELSE callers[u]]
    /\ UNCHANGED <<calls, arg, ret, attempts, failed, last_identify, matcherVars,
                   serialized, preparerVars, cliVars>>

\* KnownPath.set_identity: `node.identity = identity`, and what follows the call
AssignStep(t) ==
    /\ callers[t].pc = "set"
    /\ callers[t].rest = <<>>
    /\ MayRun(t)
    /\ LET c == callers[t]
       IN  /\ known_paths' = IF c.attached
                             THEN [known_paths EXCEPT ![c.node] = Head(c.todo).identity]
                             ELSE known_paths
           /\ callers' = [callers EXCEPT ![t] = StartSet(c, Tail(c.todo), c.next)]
    /\ UNCHANGED <<calls, arg, ret, attempts, failed, last_identify, matcherVars,
                   serialized, preparerVars, cliVars>>

\* ------------------------------------------------------------ CLI context

MaxHooks == 3

MaxGets == 2

\* the callables given to register_terms_update_hook
Hooks == {"h1", "h2"}

\* the result of a get_noc1_client() call never made
NoGet == [returned |-> 0, raised |-> "None"]

\* CliContext.__init__
CliInit ==
    /\ config_license \in {"None", "key"}
    /\ license = 0
    /\ noc1_client = 0
    /\ terms_update_hooks = << >>
    /\ client_hooks = << >>
    /\ constructed = 0
    /\ gets = 0
    /\ last_get = NoGet

\* a context constructed without a license and never used
CliIdle == CliInit /\ config_license = "None"

\* CliContext.register_terms_update_hook
RegisterTermsUpdateHook(hook) ==
    /\ Len(terms_update_hooks) < MaxHooks
    /\ terms_update_hooks' = Append(terms_update_hooks, hook)
    /\ UNCHANGED <<config_license, license, noc1_client, client_hooks,
                   constructed, gets, last_get>>
    /\ UNCHANGED <<trieVars, matcherVars, callerVars, preparerVars>>

\* CliContext.get_license: the License _license holds when it returns
get_license(held, configured) ==
    IF held = 0 /\ configured # "None" THEN 1 ELSE held

\* noc1.Client.register_terms_update_hook: the client's hooks after it
client_register_terms_update_hook(hooks, hook) == Append(hooks, hook)

\* get_noc1_client's loop over _terms_update_hooks
RECURSIVE register_hooks(_, _)
register_hooks(hooks, todo) ==
    IF todo = << >> THEN hooks
    ELSE register_hooks(client_register_terms_update_hook(hooks, Head(todo)),
                        Tail(todo))

\* get_noc1_client() making a client on every call
get_noc1_client_constructs_always(client) == TRUE

\* CliContext.get_noc1_client: `if self._noc1_client is None`
get_noc1_client_constructs(client) == client = 0

\* CliContext.get_noc1_client with require_license
GetNoc1Client ==
    /\ gets < MaxGets
    /\ gets' = gets + 1
    /\ IF get_noc1_client_constructs(noc1_client)
       THEN LET held == get_license(license, config_license)
            IN  /\ license' = held
                /\ IF held = 0
                   THEN /\ last_get' = [returned |-> 0,
                                        raised |-> "LicenseRequiredException"]
                        /\ UNCHANGED <<noc1_client, client_hooks, constructed>>
                   ELSE /\ constructed' = constructed + 1
                        /\ noc1_client' = constructed + 1
                        /\ client_hooks' =
                              register_hooks(<< >>, terms_update_hooks)
                        /\ last_get' = [returned |-> constructed + 1,
                                        raised |-> "None"]
       ELSE /\ last_get' = [returned |-> noc1_client, raised |-> "None"]
            /\ UNCHANGED <<license, noc1_client, client_hooks, constructed>>
    /\ UNCHANGED <<config_license, terms_update_hooks>>
    /\ UNCHANGED <<trieVars, matcherVars, callerVars, preparerVars>>

\* ---------------------------------------------------------- specifications

\* the matcher as constructed and never used
MatcherIdle ==
    /\ MatcherInit
    /\ match_all = FALSE
    /\ lazy = FALSE
    /\ database_source = "None"

Init == TrieInit /\ MatcherIdle /\ CallersIdle /\ PreparersIdle /\ CliIdle

Next == \E path \in QueryPaths : Identify(path)

\* sequential identify() calls on one FileIdentifier
Spec == Init /\ [][Next]_vars

MatcherSpecInit ==
    /\ TrieInit /\ MatcherInit /\ CallersIdle /\ PreparersIdle /\ CliIdle
    /\ database_source = "None"

MatcherNext ==
    \/ Prepare(0, "")
    \/ \E t \in Threads : PrepareThread(t, 0)
    \/ \E t \in Threads : CreateContext(t)
    \/ \E t \in Threads : Enter(t)
    \/ \E t \in Threads : \E chunk \in Chunks : \E reported \in Chunks :
          ProcessChunk(t, chunk, reported, FALSE, 0)
    \/ \E t \in Threads : Exit(t)

\* worker threads sharing one VectorscanMatcher on a backend that works
SpecMatcher == MatcherSpecInit /\ [][MatcherNext]_vars

PrepareSpecInit == TrieInit /\ MatcherInit /\ CallersIdle /\ PreparersIdle /\ CliIdle

PrepareNext ==
    \/ \E code \in CompileCodes \cup DeserializeCodes :
          \E message \in Messages \cup {""} : Prepare(code, message)
    \/ \E t \in Threads : \E code \in AllocCodes : PrepareThread(t, code)
    \/ \E t \in Threads : CreateContext(t)

\* the calls that prepare a VectorscanMatcher and make its contexts
SpecPrepare == PrepareSpecInit /\ [][PrepareNext]_vars

\* the one thread of a caller that scans on the thread it prepares on
Worker == CHOOSE t \in Threads : TRUE

ContextSpecInit ==
    /\ TrieInit /\ MatcherInit /\ CallersIdle /\ PreparersIdle /\ CliIdle
    /\ lazy = FALSE
    /\ database_source = "None"

ContextNext ==
    \/ Prepare(0, "")
    \/ \E code \in AllocCodes : PrepareThread(Worker, code)
    \/ CreateContext(Worker)
    \/ Enter(Worker)
    \/ \E chunk \in Chunks : \E reported \in Chunks : \E start \in BOOLEAN :
          \E code \in ScanCodes \cup {-1} :
             ProcessChunk(Worker, chunk, reported, start, code)
    \/ Exit(Worker)

\* one thread preparing the matcher, making its scanner and scanning files,
\* one context after the other
SpecContext == ContextSpecInit /\ [][ContextNext]_vars

RecordSpecInit ==
    /\ TrieInit /\ MatcherInit /\ CallersIdle /\ PreparersIdle /\ CliIdle
    /\ match_all = FALSE
    /\ lazy = FALSE
    /\ database_source = "None"

RecordNext ==
    \/ Prepare(0, "")
    \/ PrepareThread(Worker, 0)
    \/ CreateContext(Worker)
    \/ Enter(Worker)
    \/ \E identifier \in Signatures : \E matched \in Texts :
          RecordMatch(Worker, identifier, matched)
    \/ Exit(Worker)

\* match events recorded in the match maps of the contexts one thread holds,
\* one context after the other
SpecRecord == RecordSpecInit /\ [][RecordNext]_vars

PreparersSpecInit ==
    /\ TrieInit /\ MatcherInit /\ CallersIdle /\ PreparersInit /\ CliIdle
    /\ match_all = FALSE
    /\ lazy = FALSE

PreparersNext ==
    \/ \E t \in Threads : PrepareCall(t)
    \/ \E t \in Threads : \E code \in CompileCodes \cup DeserializeCodes :
          \E message \in Messages \cup {""} : PrepareAcquire(t, code, message)
    \/ \E t \in Threads : PrepareFinish(t)

\* threads calling prepare() on one Matcher, one call each
SpecPreparers == PreparersSpecInit /\ [][PreparersNext]_vars

CliSpecInit ==
    TrieInit /\ MatcherIdle /\ CallersIdle /\ PreparersIdle /\ CliInit

CliNext ==
    \/ \E hook \in Hooks : RegisterTermsUpdateHook(hook)
    \/ GetNoc1Client

\* the calls made on a CliContext
SpecCli == CliSpecInit /\ [][CliNext]_vars

StatusNext ==
    \/ \E code \in CompileCodes \cup DeserializeCodes :
          \E message \in Messages \cup {""} : Prepare(code, message)
    \/ \E wrapped \in BOOLEAN : \E code \in StatusCodes :
          AssertSuccess(wrapped, code)

\* the status checks made of the backend's return codes, by prepare() and
\* by a caller of the bindings
SpecStatus == PrepareSpecInit /\ [][StatusNext]_vars

\* the paths the callers of identify(path, identify_new) ask about
LookupPaths == {b \o r : b \in Bases, r \in {<<>>, <<"f">>}}

LookupSpecInit == TrieInit /\ MatcherIdle /\ CallersIdle /\ PreparersIdle /\ CliIdle

LookupNext ==
    \/ \E path \in LookupPaths : Identify(path)
    \/ \E path \in LookupPaths : IdentifyKnown(path)

\* identify() called with and without discovery allowed
SpecLookup == LookupSpecInit /\ [][LookupNext]_vars

CallersSpecInit == TrieInit /\ MatcherIdle /\ CallersInit /\ PreparersIdle /\ CliIdle

CallersNext ==
    \/ \E t \in Threads : \E path \in CallerPaths : CallIdentify(t, path)
    \/ \E t \in Threads : FindStep(t)
    \/ \E t \in Threads : CheckStep(t)
    \/ \E t \in Threads : InsertStep(t)
    \/ \E t \in Threads : AssignStep(t)

\* threads calling identify() on one FileIdentifier, one call each
SpecCallers == CallersSpecInit /\ [][CallersNext]_vars

\* ------------------------------------------------------- claims on the trie

\* an installation has been discovered and its identities seeded
Seeded == \E p \in DOMAIN attempts : p \notin failed

\* the paths files are named by below a directory
FilesBelow == SeqsUpTo({"f"}, MaxRel + 1) \ {<<>>}

Extensions == {[path |-> PluginPath, type |-> "plugin"],
               [path |-> ThemePath, type |-> "theme"]}

UnderExtension(p) == \E e \in Extensions : IsPrefix(e.path, p)

\* normalized paths below the installation root and below no extension
CoreFiles ==
    {p \in {prepare_path(q) : q \in QueryPaths} \cup {CorePath \o f : f \in FilesBelow} :
        IsPrefix(CorePath, p) /\ p # CorePath /\ ~UnderExtension(p)}

\* C1 (trie finality): once a plugin or theme root B is seeded as a final
\* GroupIdentity, then after any further identify() calls identify(B/f)
\* returns the KnownFileIdentity of that component whose local_path is f.
C1_TrieFinality ==
    Seeded =>
        \A e \in Extensions : \A f \in FilesBelow :
            identify(known_paths, e.path \o f, TRUE).ret
                = KnownFileIdentity(e.type, f, e.path)

\* C2 (core attribution): once the installation root R is seeded with the
\* non-final core GroupIdentity, identify(p) of every path p below R and
\* below no extension returns KnownFileIdentity(core, p relative to R),
\* whatever was identified before.
C2_CoreAttribution ==
    Seeded =>
        \A p \in CoreFiles :
            identify(known_paths, p, TRUE).ret
                = KnownFileIdentity("core", relative_to(p, CorePath), <<>>)

\* C3 (discovery caching): after an identify(p) that invoked discovery, no
\* identify(q) for q = p, or for q sharing p's non-final (core) ancestor,
\* invokes discovery again.
C3_DiscoveryCached ==
    \A p \in DOMAIN attempts : \A q \in QueryPaths :
        LET nq == prepare_path(q)
        IN  (nq = p \/ (p \in CoreFiles /\ nq \in CoreFiles))
                => ~identify(known_paths, q, TRUE).discovered

\* C4 (trie node invariant): a node whose identity is final is never given
\* another identity afterwards, and the root node never has an identity.
C4_FinalNeverOverwritten ==
    /\ [](known_paths[<<>>] = None)
    /\ [][\A n \in DOMAIN known_paths :
            is_final(known_paths[n]) => known_paths'[n] = known_paths[n]]_vars

\* C5 (discovery failure is absorbed): where discovery failed for p, the
\* call returned Unclassified and raised nothing, Unclassified is stored at
\* node p and at no other node, discovery was invoked for p once only, and
\* a further identify(p) returns Unclassified without discovery and without
\* changing the trie.
C5_FailureAbsorbed ==
    /\ \A p \in failed :
        /\ p \in DOMAIN known_paths /\ known_paths[p] = Unclassified
        /\ Count(attempts, p) = 1
        /\ prepare_path(arg) = p => ret = Unclassified
        /\ \A q \in QueryPaths :
              prepare_path(q) = p =>
                  identify(known_paths, q, TRUE)
                      = [kp |-> known_paths, ret |-> Unclassified,
                         discovered |-> FALSE, discoveries |-> 0,
                         reentries |-> 0]
    /\ {n \in DOMAIN known_paths : known_paths[n] = Unclassified} = failed

\* a second identify(p) after the one whose discovery failed
C5_Witness ==
    /\ calls = 2
    /\ failed = {prepare_path(arg)}
    /\ DOMAIN attempts = failed
    /\ ret = Unclassified

\* C7 (path normalization): two inputs that normalize to the same path get,
\* from the same trie, the same answer (or both an error) and leave the
\* same trie.
C7_NormalizedOnly ==
    \A p1 \in QueryPaths : \A p2 \in QueryPaths :
        prepare_path(p1) = prepare_path(p2) =>
            identify(known_paths, p1, TRUE) = identify(known_paths, p2, TRUE)

\* ---------------------------------------------------- claims on the matcher

\* C8 (idempotent preparation), as claimed: over any sequence of prepare()
\* calls the acquisition _prepare() runs exactly once, on the first call.
C8_AcquiredOnce == prepare_calls >= 1 => acquisitions = 1

\* C8, amended: once a prepare() call has acquired the database, the
\* prepared flag never returns to false, no later call runs _prepare(), and
\* the database stays the one that call acquired; until then the matcher
\* holds no database.
C8_PreparedIsFinal ==
    /\ [](prepared <=> database # 0)
    /\ [](prepared => database = acquisitions)
    /\ [][prepared => /\ prepared'
                      /\ database' = database
                      /\ acquisitions' = acquisitions]_vars

\* a second prepare() call on the matcher the first one prepared
C8_Witness == prepared /\ prepare_calls = 2 /\ acquisitions = 1

\* C9 (context creation requires preparation): a matcher context exists
\* only for a matcher whose prepared flag is true.
C9_ContextNeedsPrepared == DOMAIN contexts # {} => prepared

\* C10 (per-thread scan session): every process_chunk call scans with the
\* session its own thread made, and its matches are recorded in the match
\* map of the context it was called on.
C10_SessionPerThread ==
    last_scan.thread # 0 =>
        /\ sessions[last_scan.session].owner = last_scan.thread
        /\ last_scan.recorded \in {0, last_scan.context}

\* ------------------------------------------- claims on concurrent callers

Finished == {t \in Threads : callers[t].pc = "done"}

\* no call is under way
Quiescent == \A t \in Threads : callers[t].pc \in {"idle", "done"}

Orders(S) ==
    {o \in [1..Cardinality(S) -> S] :
        \A i, j \in 1..Cardinality(S) : o[i] = o[j] => i = j}

RECURSIVE RunInOrder(_, _, _)
RunInOrder(kp, o, i) ==
    IF i > Len(o) THEN kp
    ELSE RunInOrder(identify(kp, callers[o[i]].path, TRUE).kp, o, i + 1)

\* the tries the finished calls leave when they run one after another
SequentialTries == {RunInOrder(EmptyTrie, o, 1) : o \in Orders(Finished)}

NoNodeLost ==
    \A n \in DOMAIN known_paths :
        /\ n \in DOMAIN known_paths'
        /\ known_paths[n] # None => known_paths'[n] # None

\* C6 (trie safety under concurrency), as claimed: threads that run
\* identify() with no lock lose no node and no identity of the trie, and
\* leave the trie some sequential order of their calls leaves.
C6_RaceFree ==
    /\ [](Quiescent => known_paths \in SequentialTries)
    /\ [][NoNodeLost]_vars

\* C6, amended: the same, for threads that hold an external lock around
\* each identify() call.
C6_SerializedIsSafe ==
    /\ []((serialized /\ Quiescent) => known_paths \in SequentialTries)
    /\ [][serialized => NoNodeLost]_vars

\* every thread has made its call under the lock, and the calls met in the trie
C6_Witness ==
    /\ serialized
    /\ Finished = Threads
    /\ \E t \in Threads : callers[t].ret.kind = "KnownFileIdentity"
    /\ \E t, u \in Threads : t # u /\ callers[t].path # callers[u].path

\* ------------------------------------------ claims on one identify() call

\* C20: every identify(path) call terminates (it does not run out of
\* frames), calls itself at most once, and invokes installation discovery
\* at most once, whatever the trie holds and whether discovery succeeds or
\* fails.
C20_OneDiscoveryPerQuery ==
    calls > 0 =>
        /\ ret # RecursionError
        /\ last_identify.discoveries <= 1
        /\ last_identify.reentries <= 1
        /\ last_identify.reentries = last_identify.discoveries

\* a call that discovered an installation, called itself, and still found
\* no identity for its path: the call that would discover again if the
\* re-entrant call were allowed to
C20_Witness ==
    /\ calls > 1
    /\ last_identify.discoveries = 1
    /\ last_identify.reentries = 1
    /\ ret = Unclassified
    /\ prepare_path(arg) \notin failed
    /\ failed # {}

\* ------------------------------------------- claims on one matcher context

\* the context of the last process_chunk call is still held by its caller
ScanInSight ==
    /\ last_scan.thread # 0
    /\ last_scan.context \in DOMAIN contexts
    /\ last_scan.recorded \in {0, last_scan.context}

\* C11: when two or more distinct signatures match within one chunk, a
\* context of a matcher with match_all false has its callback ask for
\* termination at the first match: process_chunk returns true, the match map
\* holds at least one entry, and the early stop is not raised as an error.
\* With match_all true the callback never asks for termination and after the
\* chunk the match map holds all the signatures that matched.
C11_MatchAllVersusFirst ==
    (ScanInSight /\ Cardinality(last_scan.candidates) >= 2) =>
        LET matches == contexts[last_scan.context].matches
        IN  /\ last_scan.result = "True"
            /\ pending[last_scan.thread] = NoError
            /\ IF match_all
               THEN /\ ~last_scan.terminate
                    /\ last_scan.candidates \subseteq DOMAIN matches
                    /\ Cardinality(DOMAIN matches)
                          >= Cardinality(last_scan.candidates)
               ELSE /\ last_scan.terminate
                    /\ Cardinality(last_scan.reported) = 1
                    /\ last_scan.reported \subseteq DOMAIN matches

\* a scan of a chunk two signatures match in, stopped by the callback of a
\* first-match context at the first of them
C11_Witness ==
    /\ ~match_all
    /\ ScanInSight
    /\ Cardinality(last_scan.candidates) >= 2
    /\ last_scan.terminate
    /\ backend.op = "scan"
    /\ Cardinality(DOMAIN contexts[last_scan.context].matches) = 1

\* C12: a process_chunk call that raises nothing returns true when a match
\* callback fired during the call and false when the backend went through
\* the chunk with no match, whatever the calls before it on the same
\* context found: the matched flag is cleared when the call starts.
C12_ReturnValue ==
    (last_scan.thread # 0 /\ last_scan.result # "raised") =>
        /\ last_scan.reported # {} => last_scan.result = "True"
        /\ last_scan.reported = {} => last_scan.result = "False"

\* a call that found nothing and returned false on a context whose call
\* before had matched
C12_Witness ==
    /\ ScanInSight
    /\ backend.op = "scan"
    /\ last_scan.before = "True"
    /\ last_scan.reported = {}
    /\ last_scan.result = "False"
    /\ DOMAIN contexts[last_scan.context].matches # {}

\* the contexts a session's owner is inside of
OpenOn(s) == {t \in Threads : entered[t] /\ sessions[s].owner = t}

\* C13: however an entered context is left (normally, after the early stop
\* at a first match, or by an exception process_chunk raised), its session
\* is reset exactly once before the next context is entered on it: every
\* entry but the one under way has had its reset, a session no context is
\* entered on holds no callback and no stream state, and the exception that
\* ended the block is raised to the caller after the reset.
C13_ReleasedOnEveryExit ==
    /\ \A s \in DOMAIN sessions :
          /\ sessions[s].entries = sessions[s].resets + Cardinality(OpenOn(s))
          /\ OpenOn(s) = {} => sessions[s].callback = 0 /\ sessions[s].fired = {}
    /\ last_exit.how = "exception" =>
          /\ last_exit.error.class = "VectorscanError"
          /\ sessions[last_exit.session].resets >= 1
    /\ last_exit.how \in {"normal", "terminated"} => last_exit.error = NoError
    /\ (backend = NoCall /\ last_exit.how = "exception" /\ raised # NoError)
          => raised = last_exit.error

\* the next context entered on a session whose last context was left by an
\* exception
C13_Witness ==
    /\ last_exit.how = "exception"
    /\ raised = NoError
    /\ entered[last_exit.thread]
    /\ sessions[last_exit.session].entries = 2
    /\ sessions[last_exit.session].resets = 1

\* ------------------------------------------------- claims on the backend

\* C14: when the backend reports a compiler error for a malformed pattern,
\* prepare() raises a compilation error of kind COMPILER_ERROR that carries
\* the message the backend reported; any other failure code of the
\* compilation is raised as the backend error _assert_success made of it.
C14_CompilerMessageCarried ==
    backend.op = "compile" =>
        /\ backend.code = -4 =>
              /\ raised.class = "VectorscanCompilerError"
              /\ raised.error = "COMPILER_ERROR"
              /\ backend.message \in Messages
              /\ raised.args = <<backend.message>>
        /\ backend.code \notin {0, -4} =>
              /\ raised.class = "VectorscanError"
              /\ raised.error # "COMPILER_ERROR"
              /\ raised.error =
                    IF backend.code \in DOMAIN VectorscanErrorType
                    THEN VectorscanErrorType[backend.code]
                    ELSE "UNKNOWN_ERROR"
        /\ backend.code = 0 => raised = NoError

\* a second prepare() whose compilation failed on a pattern, after a first
\* whose compilation failed for want of memory
C14_Witness ==
    /\ backend.op = "compile"
    /\ backend.code = -4
    /\ raised.args = <<"bad pattern 2">>
    /\ acquired.compile = 2
    /\ ~prepared

\* C15: every return code of the backend other than success and
\* SCAN_TERMINATED, whether it comes from allocating a thread's scratch or
\* from scanning a chunk, is raised to the caller as a backend error.
C15_BackendFailuresSurfaced ==
    (backend.op \in {"alloc_scratch", "scan"} /\ backend.code \notin {0, -3})
        => raised.class = "VectorscanError"

\* C16: a matcher constructed with a precompiled database acquires its
\* database by deserializing it and never compiles; a matcher constructed
\* with none compiles its signature set and never deserializes.
C16_BlobSkipsCompilation ==
    /\ database_source = "blob" =>
          /\ acquired.compile = 0
          /\ acquired.deserialize = acquisitions
          /\ backend.op # "compile"
    /\ database_source = "None" =>
          /\ acquired.deserialize = 0
          /\ acquired.compile = acquisitions
          /\ backend.op # "deserialize"

\* a matcher given a precompiled database, prepared by its second prepare()
\* after the first failed to deserialize
C16_Witness ==
    /\ database_source = "blob"
    /\ prepared
    /\ prepare_calls = 2
    /\ acquired.deserialize = 2
    /\ backend.op = "deserialize"

\* ------------------------------------------------ claims on the match map

\* C17: over any sequence of match events in a context the match map holds
\* one record per signature identifier: a match sets its identifier's record
\* to the text it came with, replacing the record the identifier had; the
\* records of the other identifiers stay as they were; an identifier once in
\* the map is never removed while its context lives.
C17_MatchMapKeyed ==
    /\ [](last_match.context \in DOMAIN contexts =>
            LET matches == contexts[last_match.context].matches
            IN  /\ last_match.identifier \in DOMAIN matches
                /\ matches[last_match.identifier] = last_match.matched
                /\ \A i \in DOMAIN matches : matches[i] \in Texts)
    /\ [][\A c \in (DOMAIN contexts) \cap (DOMAIN contexts') :
            /\ DOMAIN contexts[c].matches \subseteq DOMAIN contexts'[c].matches
            /\ \A i \in DOMAIN contexts'[c].matches :
                  \/ /\ i \in DOMAIN contexts[c].matches
                     /\ contexts'[c].matches[i] = contexts[c].matches[i]
                  \/ /\ c = last_match'.context
                     /\ i = last_match'.identifier]_vars

\* a match for an identifier that had a record with another text, in a map
\* that holds a record of another identifier too
C17_Witness ==
    /\ last_match.context \in DOMAIN contexts
    /\ last_match.prior = ""
    /\ last_match.matched = "a"
    /\ Cardinality(DOMAIN contexts[last_match.context].matches) = 2

\* ------------------------------------------------- claims on the stream

\* C19: a process_chunk call with start_of_stream true begins a new logical
\* stream on the same session: no signature counts as having fired, so every
\* signature whose pattern the chunk holds matches in it, whatever the
\* chunks fed before held.
C19_StartOfStreamResets ==
    (last_scan.thread # 0 /\ last_scan.start /\ last_scan.result # "raised")
        => last_scan.candidates = last_scan.chunk

\* ------------------------------------------- claims on concurrent prepare

\* no prepare() call has raised
NoFailure == \A t \in Threads : preparers[t].raised = NoError

Preparing == {t \in Threads : preparers[t].pc \notin {"idle", "done"}}

C21_CachedIdentityHit ==
    (calls > 0 /\ ret.kind = "KnownFileIdentity")
        => /\ find_identity(known_paths, arg) = ret
           /\ identify(known_paths, arg, TRUE).kp = known_paths

\* C22: two consecutive identify(p) calls for one path end alike: the
\* second returns the identity the first returned (or raises as it raised).
C22_RepeatIdempotent ==
    (calls > 0 /\ last_identify.identify_new)
        => identify(known_paths, arg, TRUE).ret = ret

\* the last call discovered an installation and returned a file's identity,
\* and the same call made again discovers nothing and returns it again
C22_Witness ==
    /\ calls > 1
    /\ last_identify.discoveries = 1
    /\ ret.kind = "KnownFileIdentity"
    /\ ~identify(known_paths, arg, TRUE).discovered
    /\ identify(known_paths, arg, TRUE).ret = ret

\* C23: identify(p, False) on a path whose lookup yields None returns the
\* unknown-type identity, runs no discovery and leaves the trie, every node
\* and every identity of it, as it was.
C23_NoDiscoveryWhenForbidden ==
    [][(/\ calls' = calls + 1
        /\ ~last_identify'.identify_new
        /\ find_identity(known_paths, arg') = None)
          => /\ ret' = Unclassified
             /\ known_paths' = known_paths
             /\ attempts' = attempts
             /\ failed' = failed
             /\ last_identify'.discoveries = 0]_vars

\* identify(p, False) has just returned unknown for a path inside a known
\* installation that no identity covers
C23_Witness ==
    /\ calls > 1
    /\ Seeded
    /\ ~last_identify.identify_new
    /\ IsPrefix(CorePath, prepare_path(arg))
    /\ find_identity(known_paths, arg) = None
    /\ ret = Unclassified

\* what identify(path, identify_new) resolves its result from: the lookup,
\* made again after discovery when the first found nothing
ResolvedFrom(kp, path, identify_new) ==
    LET found == find_identity(kp, path)
    IN  IF found = None /\ identify_new
        THEN find_identity(identify_new_path(kp, path), path)
        ELSE found

\* C25: an identify() call that returns, returns a KnownFileIdentity or the
\* unknown-type FileIdentity, never None and never a GroupIdentity; and a
\* KnownFileIdentity converted from a GroupIdentity has that group's type
\* and extension (the model has one installation).
C25_ResultShape ==
    /\ [](calls > 0 =>
            \/ ret \in {Unclassified, Raised}
            \/ /\ ret.kind = "KnownFileIdentity"
               /\ \/ ret.type = "core" /\ ret.extension = <<>>
                  \/ \E e \in Extensions :
                        ret.type = e.type /\ ret.extension = e.path)
    /\ [][calls' = calls + 1 =>
            LET found == ResolvedFrom(known_paths, arg',
                                      last_identify'.identify_new)
            IN  (found.kind = "GroupIdentity" /\ ret' # Raised)
                    => /\ ret'.kind = "KnownFileIdentity"
                       /\ ret'.type = found.type
                       /\ ret'.extension = found.extension]_vars

\* identify(p, False) has returned a plugin file's identity
C25_Witness ==
    /\ calls > 1
    /\ ~last_identify.identify_new
    /\ ret.kind = "KnownFileIdentity"
    /\ ret.type = "plugin"
    /\ ret.extension = PluginPath

\* ------------------------------------------------------ failed preparation

\* C26: a prepare() call whose acquisition raises (compilation or
\* deserialization failure) leaves prepared false and the database unset,
\* and a prepare() call on an unprepared matcher acquires again.
C26_FailedPrepareUnprepared ==
    [][prepare_calls' = prepare_calls + 1 =>
        /\ raised' # NoError => (~prepared' /\ database' = 0)
        /\ ~prepared => /\ acquisitions' = acquisitions + 1
                        /\ backend'.op \in {"compile", "deserialize"}]_vars

\* a prepare() call failed, and the next acquired again and succeeded
C26_Witness ==
    /\ prepare_calls = 2
    /\ acquisitions = 2
    /\ prepared
    /\ database = 2
    /\ raised = NoError

\* ------------------------------------------------------ status normalization

\* the member of VectorscanErrorType a code stands for
ErrorKind(code) ==
    IF code \in DOMAIN VectorscanErrorType
    THEN VectorscanErrorType[code] ELSE "UNKNOWN_ERROR"

StatusChecked == backend.op \in {"status of int", "status of c_int"}

C24_IntCodesNormalized ==
    backend.op = "status of int" =>
        /\ raised = NoError <=> backend.code = 0
        /\ backend.code # 0 =>
              /\ raised.class = "VectorscanError"
              /\ raised.error = ErrorKind(backend.code)

\* ------------------------------------------------------- the NOC1 client

\* C27: over any sequence of register_terms_update_hook() and
\* get_noc1_client() calls at most one client is constructed and every
\* successful call returns it; the client's hooks are the hooks registered
\* before it was made, each once and in order, and stay so whatever is
\* registered later; without a configured license get_noc1_client() raises
\* LicenseRequiredException and leaves the client unset.
C27_ClientLifecycle ==
    /\ [](/\ constructed <= 1
          /\ noc1_client = 0 => client_hooks = << >>
          /\ noc1_client # 0 => IsPrefix(client_hooks, terms_update_hooks))
    /\ [][/\ noc1_client # 0 =>
               noc1_client' = noc1_client /\ client_hooks' = client_hooks
          /\ (noc1_client = 0 /\ noc1_client' # 0) =>
               client_hooks' = terms_update_hooks
          /\ gets' = gets + 1 =>
               IF config_license = "None"
               THEN /\ last_get'.raised = "LicenseRequiredException"
                    /\ noc1_client' = 0
               ELSE /\ last_get'.raised = "None"
                    /\ noc1_client' # 0
                    /\ last_get'.returned = noc1_client']_vars

\* a hook was registered, the client made, another hook registered and the
\* client asked for again
C27_Witness ==
    /\ gets = 2
    /\ noc1_client # 0
    /\ last_get.returned = noc1_client
    /\ Len(client_hooks) > 0
    /\ Len(terms_update_hooks) > Len(client_hooks)

====
